---- MODULE Spec2Model ----
(***************************************************************************)
(* Model of image/lambda/test2/thumbnail-creator/main.go: the AVIF         *)
(* conversion Lambda.  The process runs init() once, main() hands          *)
(* HandleRequest to the Lambda runtime, and every invocation walks         *)
(* HandleRequest statement by statement; each collaborator call (url, S3,  *)
(* vips) is one step whose outcome the environment chooses.                *)
(*                                                                         *)
(* Go strings and byte slices are sequences of byte values (0..255).       *)
(***************************************************************************)
EXTENDS Integers, Sequences, FiniteSets, TLC

\* ------------------------------------------------------------------ bounds

\* Invocations the runtime delivers to one process before the model stops.
MaxInvocations == 3

\* Invocations started in one process when calls may overlap.
MaxInterleaved == 2

\* Length of the literal keys enumerated for the key functions.
MaxKeyLen == 3

\* ------------------------------------------------------------ byte strings

\* ASCII codes of the characters the modelled keys are written with.
Ch ==
    [pct |-> 37, plus |-> 43, sp |-> 32, dot |-> 46, slash |-> 47,
     two |-> 50, F |-> 70,
     a |-> 97, b |-> 98, d |-> 100, f |-> 102, g |-> 103, i |-> 105,
     j |-> 106, p |-> 112, q |-> 113, r |-> 114, v |-> 118, z |-> 122,
     e |-> 101, h |-> 104, n |-> 110, o |-> 111, t |-> 116, x |-> 120]

\* s[from..] in Go slice notation, 1-based here.
DropTo(s, from) == SubSeq(s, from, Len(s))

\* net/url ishex: '0'..'9', 'a'..'f', 'A'..'F'.
ishex(c) ==
    \/ (48 <= c /\ c <= 57)
    \/ (97 <= c /\ c <= 102)
    \/ (65 <= c /\ c <= 70)

\* Mutant of unhex: the upper-case digits 'A'..'F' are not handled.
unhex_LowerOnly(c) ==
    IF 48 <= c /\ c <= 57 THEN c - 48
    ELSE IF 97 <= c /\ c <= 102 THEN c - 97 + 10
    ELSE 0

\* net/url unhex.
unhex(c) ==
    IF 48 <= c /\ c <= 57 THEN c - 48
    ELSE IF 97 <= c /\ c <= 102 THEN c - 97 + 10
    ELSE IF 65 <= c /\ c <= 70 THEN c - 65 + 10
    ELSE 0

\* First pass of net/url unescape: TRUE iff some '%' is not followed by two
\* hex digits (the EscapeError return).
RECURSIVE BadEscape(_, _)
BadEscape(s, k) ==
    IF k > Len(s) THEN FALSE
    ELSE IF s[k] = Ch.pct
         THEN IF k + 2 > Len(s) \/ ~ishex(s[k + 1]) \/ ~ishex(s[k + 2])
              THEN TRUE
              ELSE BadEscape(s, k + 3)
         ELSE BadEscape(s, k + 1)

\* Mutant of UnescapeFrom: path mode, '+' is copied (url.PathUnescape).
RECURSIVE UnescapeFrom_PlusKept(_, _)
UnescapeFrom_PlusKept(s, k) ==
    IF k > Len(s) THEN << >>
    ELSE IF s[k] = Ch.pct
         THEN <<unhex(s[k + 1]) * 16 + unhex(s[k + 2])>> \o UnescapeFrom_PlusKept(s, k + 3)
         ELSE <<s[k]>> \o UnescapeFrom_PlusKept(s, k + 1)

\* Second pass of net/url unescape in query-component mode: "%XY" becomes the
\* byte 16*X+Y, '+' becomes ' ', every other byte is copied.
RECURSIVE UnescapeFrom(_, _)
UnescapeFrom(s, k) ==
    IF k > Len(s) THEN << >>
    ELSE IF s[k] = Ch.pct
         THEN <<unhex(s[k + 1]) * 16 + unhex(s[k + 2])>> \o UnescapeFrom(s, k + 3)
         ELSE IF s[k] = Ch.plus
              THEN <<Ch.sp>> \o UnescapeFrom(s, k + 1)
              ELSE <<s[k]>> \o UnescapeFrom(s, k + 1)

\* A Go error value: its Error() text as the chunks it was formatted from,
\* and the error it wraps (a sequence of length 0 or 1, what errors.Unwrap
\* returns).
LeafError(text) == [text |-> <<text>>, wraps |-> << >>]

\* url.QueryUnescape(s): [ok, val, err].
QueryUnescape(s) ==
    IF BadEscape(s, 1)
    THEN [ok |-> FALSE, val |-> << >>, err |-> LeafError("invalid URL escape")]
    ELSE [ok |-> TRUE, val |-> UnescapeFrom(s, 1), err |-> LeafError("")]

\* Mutant of ExtFrom: the scan does not stop at the path separator (the last
\* dot of the whole key).
RECURSIVE ExtFrom_IgnoreSlash(_, _)
ExtFrom_IgnoreSlash(path, k) ==
    IF k < 1 THEN << >>
    ELSE IF path[k] = Ch.dot THEN DropTo(path, k)
    ELSE ExtFrom_IgnoreSlash(path, k - 1)

\* filepath.Ext(path): the suffix beginning at the final dot in the final
\* slash-separated element of path; empty if there is no dot.  The scan runs
\* from the end and stops at a path separator.
RECURSIVE ExtFrom(_, _)
ExtFrom(path, k) ==
    IF k < 1 \/ path[k] = Ch.slash THEN << >>
    ELSE IF path[k] = Ch.dot THEN DropTo(path, k)
    ELSE ExtFrom(path, k - 1)

Ext(path) == ExtFrom(path, Len(path))

\* replaceExtension(key, newExt).
replaceExtension(key, newExt) ==
    LET ext == Ext(key)
    IN  IF ext = << >>
        THEN key \o newExt
        ELSE SubSeq(key, 1, Len(key) - Len(ext)) \o newExt

\* The literal ".avif" passed at the call site.
AvifExt == <<Ch.dot, Ch.a, Ch.v, Ch.i, Ch.f>>

\* Mutant of HasPrefix: an exact match instead of a prefix match.
HasPrefix_Exact(s, prefix) == s = prefix

\* strings.HasPrefix(s, prefix).
HasPrefix(s, prefix) ==
    Len(s) >= Len(prefix) /\ SubSeq(s, 1, Len(prefix)) = prefix

\* fmt.Errorf(prefix + verb, err): %w records err as the wrapped cause, %s
\* only formats its text.
Errorf(prefix, verb, err) ==
    [text  |-> <<prefix>> \o err.text,
     wraps |-> IF verb = "%w" THEN <<err>> ELSE << >>]

\* ------------------------------------------------- environment: S3, vips

\* Loader labels are spelled as sequences of one-character strings.
HeifloadPrefix == <<"h", "e", "i", "f", "l", "o", "a", "d">>

\* First byte of an object: what the bytes are (stands for the magic number
\* vips sniffs to pick a loader).
Magic == [jpeg |-> 1, heif |-> 2, junk |-> 9]

\* The "vips-loader" label vips reports for a buffer it has loaded.
LoaderLabel(buf) ==
    IF buf[1] = Magic.heif
    THEN HeifloadPrefix \o <<"_", "b", "u", "f", "f", "e", "r">>
    ELSE <<"j", "p", "e", "g", "l", "o", "a", "d", "_", "b", "u", "f", "f", "e", "r">>

\* Whether vips can load the buffer at all.
Loadable(buf) == Len(buf) > 0 /\ buf[1] \in {Magic.jpeg, Magic.heif}

\* The bytes the encoder produces for a loaded buffer under the given options:
\* a HEIF-family object that depends on the picture and on the profile.
HeifEncode(buf, options) ==
    <<Magic.heif, options.Q, options.Bitdepth, buf[2]>>

JpegA == <<Magic.jpeg, 7, 7, 7, 7>>
JpegB == <<Magic.jpeg, 8, 8>>
AvifA == <<Magic.heif, 5, 5, 5, 5, 5>>
Junk  == <<Magic.junk, 6>>

\* Literal keys of the objects in the buckets.
KeyDPJpg == <<Ch.d, Ch.slash, Ch.p, Ch.dot, Ch.j, Ch.p, Ch.g>>    \* "d/p.jpg"
KeyQAvif == <<Ch.q>> \o AvifExt                                   \* "q.avif"
KeyRAvif == <<Ch.r>> \o AvifExt                                   \* "r.avif"
KeyASpB  == <<Ch.a, Ch.sp, Ch.b>>                                 \* "a b"

\* Raw (escaped) keys the events carry.
RawDPJpg == <<Ch.d, Ch.pct, Ch.two, Ch.F, Ch.p, Ch.dot, Ch.j, Ch.p, Ch.g>>  \* "d%2Fp.jpg"
RawAPlusB == <<Ch.a, Ch.plus, Ch.b>>                                         \* "a+b"
RawBad == <<Ch.pct, Ch.z, Ch.z>>                                             \* "%zz"

Buckets == {"b1", "b2"}
RawKeys == {RawDPJpg, KeyQAvif, KeyRAvif, RawAPlusB, RawBad}

\* S3Event values the runtime may deliver.
Events == [S3Bucket : Buckets, S3Key : RawKeys]

StoredObject(body, ctype) == [body |-> body, contentType |-> ctype]

\* The buckets' content when the process starts: a JPEG, a real AVIF, a JPEG
\* stored under a name ending in ".avif", and bytes that are no image.
InitialStore ==
    (<<"b1", KeyDPJpg>> :> StoredObject(JpegA, "image/jpeg"))
    @@ (<<"b1", KeyQAvif>> :> StoredObject(AvifA, "image/avif"))
    @@ (<<"b1", KeyRAvif>> :> StoredObject(JpegB, "image/jpeg"))
    @@ (<<"b1", KeyASpB>> :> StoredObject(Junk, "application/octet-stream"))
    @@ (<<"b2", KeyASpB>> :> StoredObject(JpegB, "image/jpeg"))

\* S3 after a successful PutObject.
StorePut(st, in) ==
    [bk \in DOMAIN st \cup {<<in.Bucket, in.Key>>} |->
        IF bk = <<in.Bucket, in.Key>>
        THEN StoredObject(in.Body, in.ContentType)
        ELSE st[bk]]

\* -------------------------------------------------------------- the state

Slots == {1, 2}

VARIABLES
    procPc,       \* "boot" (before init), "main", "serving", "exited"
    s3Client,     \* the package variable s3Client: "nil" or "client"
    vipsStarted,  \* vips.Startup has run
    initRuns,     \* how many times init() has run to completion or failure
    initFailed,   \* config.LoadDefaultConfig returned an error
    store,        \* the buckets: <<bucket, key>> -> stored object
    served,       \* invocations the runtime has answered
    skipped,      \* <<bucket, key>> of the answered invocations that skipped
    inv           \* per runtime slot: the locals of one HandleRequest call

vars == <<procPc, s3Client, vipsStarted, initRuns, initFailed, store, served,
          skipped, inv>>

procVars == <<procPc, s3Client, vipsStarted, initRuns, initFailed>>

\* ConversionResult{}.
ZeroResult == [Status |-> "", OriginalKey |-> << >>, NewKey |-> << >>, Message |-> ""]

NoEvent == [S3Bucket |-> "", S3Key |-> << >>]

NoOptions == [Q |-> 0, Bitdepth |-> 0, Lossless |-> FALSE, SubsampleMode |-> "",
              Compression |-> "", Encoder |-> ""]

\* The locals of HandleRequest before the call; err is a sequence of length 0
\* (nil) or 1.  Two history fields ride along: calls, the record of the
\* collaborator calls made so far, and storeAtInvoke, the buckets as they
\* were when the call began.
IdleInv ==
    [pc |-> "idle", event |-> NoEvent, srcKey |-> << >>, body |-> "nil",
     stream |-> << >>, imageBuffer |-> << >>, originalSize |-> 0, image |-> "nil",
     format |-> << >>, options |-> NoOptions, avifBuffer |-> << >>,
     avifBufferSize |-> 0, newKey |-> << >>, defers |-> << >>,
     ret |-> ZeroResult, err |-> << >>, calls |-> << >>,
     storeAtInvoke |-> << >>]

Init ==
    /\ procPc = "boot"
    /\ s3Client = "nil"
    /\ vipsStarted = FALSE
    /\ initRuns = 0
    /\ initFailed = FALSE
    /\ store = InitialStore
    /\ served = 0
    /\ skipped = {}
    /\ inv = [i \in Slots |-> IdleInv]

\* ------------------------------------------------------ process lifecycle

\* Mutant of InitFn: the config error is only logged and init() returns.
InitFn_NoFatal ==
    /\ procPc = "boot"
    /\ initRuns' = initRuns + 1
    /\ \E ok \in BOOLEAN :
          IF ok
          THEN /\ s3Client' = "client"
               /\ vipsStarted' = TRUE
               /\ initFailed' = FALSE
               /\ procPc' = "main"
          ELSE /\ initFailed' = TRUE
               /\ procPc' = "main"
               /\ UNCHANGED <<s3Client, vipsStarted>>
    /\ UNCHANGED <<store, served, skipped, inv>>

\* init(): config.LoadDefaultConfig may fail, and then log.Fatalf ends the
\* process; otherwise the S3 client is built and vips is started.
InitFn ==
    /\ procPc = "boot"
    /\ initRuns' = initRuns + 1
    /\ \E ok \in BOOLEAN :
          IF ok
          THEN /\ s3Client' = "client"
               /\ vipsStarted' = TRUE
               /\ initFailed' = FALSE
               /\ procPc' = "main"
          ELSE /\ initFailed' = TRUE
               /\ procPc' = "exited"
               /\ UNCHANGED <<s3Client, vipsStarted>>
    /\ UNCHANGED <<store, served, skipped, inv>>

\* main(): lambda.Start(HandleRequest) starts the runtime loop.
Main ==
    /\ procPc = "main"
    /\ procPc' = "serving"
    /\ UNCHANGED <<s3Client, vipsStarted, initRuns, initFailed, store, served,
                   skipped, inv>>

\* The runtime loop of lambda.Start takes the next event and calls the
\* handler with it; it handles one event at a time.
Invoke(i) ==
    /\ procPc = "serving"
    /\ served < MaxInvocations
    /\ \A k \in Slots : inv[k].pc = "idle"
    /\ \E ev \in Events :
          inv' = [inv EXCEPT ![i] =
                    [IdleInv EXCEPT !.pc = "QueryUnescape", !.event = ev,
                                    !.storeAtInvoke = store]]
    /\ UNCHANGED <<procVars, store, served, skipped>>

\* The runtime loop sends the handler's return value as the response; the
\* locals of the call are gone.
Respond(i) ==
    /\ inv[i].pc = "returned"
    /\ served' = served + 1
    /\ skipped' =
          IF inv[i].err = << >> /\ inv[i].ret.Status = "SKIPPED_ALREADY_AVIF"
          THEN skipped \cup {<<inv[i].event.S3Bucket, inv[i].srcKey>>}
          ELSE skipped
    /\ inv' = [inv EXCEPT ![i] = IdleInv]
    /\ UNCHANGED <<procVars, store>>

\* ----------------------------------------------------------- HandleRequest

\* One collaborator call added to the record of calls.
Logged(l, op, ok, arg, err) ==
    [l EXCEPT !.calls = Append(@, [op |-> op, ok |-> ok, arg |-> arg, err |-> err])]

\* A return statement: the results are set, then the deferred calls run.
Return(l, result, err) ==
    [l EXCEPT !.ret = result, !.err = err,
              !.pc = IF l.defers = << >> THEN "returned" ELSE "defer"]

\* The error each failing stage returns.
KeyDecodeError(err) == Errorf("failed to decode S3 key: ", "%w", err)
GetObjectError(err) == Errorf("failed to get object from S3: ", "%w", err)
ReadStreamError(err) == Errorf("failed to read image from S3 stream: ", "%w", err)
VipsLoadError(err) == Errorf("failed to process image with vips from buffer: ", "%w", err)
EncodeError(err) == Errorf("failed to encode image to AVIF: vips_error: ", "%s", err)
\* Mutant of UploadError: the upload failure reported with the fetch message.
UploadError_FetchMessage(err) == Errorf("failed to get object from S3: ", "%w", err)

UploadError(err) == Errorf("failed to upload AVIF image to S3: ", "%w", err)

\* The encoder options built for every conversion.
HeifsaveBufferOptions ==
    [Q |-> 50, Bitdepth |-> 10, Lossless |-> FALSE,
     SubsampleMode |-> "SubsampleAuto", Compression |-> "HeifCompressionAv1",
     Encoder |-> "HeifEncoderSvt"]

SkipMessage == "Image is already in AVIF format. Skipping conversion."

\* The result of the skip branch.
SkippedResult(srcKey) ==
    [Status |-> "SKIPPED_ALREADY_AVIF", OriginalKey |-> srcKey,
     NewKey |-> << >>, Message |-> SkipMessage]

\* Mutant of ConvertedResult: the new key is left out of the result.
ConvertedResult_NoNewKey(srcKey, newKey) ==
    [Status |-> "CONVERTED", OriginalKey |-> srcKey, NewKey |-> << >>,
     Message |-> ""]

\* The result of a conversion.
ConvertedResult(srcKey, newKey) ==
    [Status |-> "CONVERTED", OriginalKey |-> srcKey, NewKey |-> newKey,
     Message |-> ""]

\* Mutant of StepQueryUnescape: srcKey is a package-level variable, so the
\* decoded key lands in every running call.
StepQueryUnescape_SharedKey(i) ==
    /\ inv[i].pc = "QueryUnescape"
    /\ LET l == inv[i]
           r == QueryUnescape(l.event.S3Key)
           c == Logged(l, "QueryUnescape", r.ok, l.event.S3Key, r.err)
       IN  inv' = [k \in Slots |->
                     IF k = i
                     THEN IF ~r.ok
                          THEN Return(c, ZeroResult, <<KeyDecodeError(r.err)>>)
                          ELSE [c EXCEPT !.srcKey = r.val, !.pc = "GetObject"]
                     ELSE IF inv[k].pc = "idle" \/ ~r.ok
                          THEN inv[k]
                          ELSE [inv[k] EXCEPT !.srcKey = r.val]]
    /\ UNCHANGED <<procVars, store, served, skipped>>

\* srcKey, err := url.QueryUnescape(event.S3Key)
StepQueryUnescape(i) ==
    /\ inv[i].pc = "QueryUnescape"
    /\ LET l == inv[i]
           r == QueryUnescape(l.event.S3Key)
           c == Logged(l, "QueryUnescape", r.ok, l.event.S3Key, r.err)
       IN  inv' = [inv EXCEPT ![i] =
                     IF ~r.ok
                     THEN Return(c, ZeroResult, <<KeyDecodeError(r.err)>>)
                     ELSE [c EXCEPT !.srcKey = r.val, !.pc = "GetObject"]]
    /\ UNCHANGED <<procVars, store, served, skipped>>

\* Mutant of StepGetObject: the object is fetched under the key as it came
\* in the event, not the decoded one.
StepGetObject_RawKey(i) ==
    /\ inv[i].pc = "GetObject"
    /\ LET l == inv[i]
           in == [Bucket |-> l.event.S3Bucket, Key |-> l.event.S3Key]
           bk == <<in.Bucket, in.Key>>
           exists == bk \in DOMAIN store
       IN  \E ok \in (IF exists THEN BOOLEAN ELSE {FALSE}) :
              LET e == IF ok THEN LeafError("")
                       ELSE IF exists THEN LeafError("RequestTimeout")
                       ELSE LeafError("NoSuchKey")
                  c == Logged(l, "GetObject", ok, in, e)
              IN  inv' = [inv EXCEPT ![i] =
                            IF ~ok
                            THEN Return(c, ZeroResult, <<GetObjectError(e)>>)
                            ELSE [c EXCEPT !.body = "open",
                                           !.stream = store[bk].body,
                                           !.defers = Append(@, "Body.Close"),
                                           !.pc = "ReadAll"]]
    /\ UNCHANGED <<procVars, store, served, skipped>>

\* s3Object, err := s3Client.GetObject(...); defer s3Object.Body.Close()
\* S3 answers NoSuchKey for a missing object and may fail for an existing one.
StepGetObject(i) ==
    /\ inv[i].pc = "GetObject"
    /\ LET l == inv[i]
           in == [Bucket |-> l.event.S3Bucket, Key |-> l.srcKey]
           bk == <<in.Bucket, in.Key>>
           exists == bk \in DOMAIN store
       IN  \E ok \in (IF exists THEN BOOLEAN ELSE {FALSE}) :
              LET e == IF ok THEN LeafError("")
                       ELSE IF exists THEN LeafError("RequestTimeout")
                       ELSE LeafError("NoSuchKey")
                  c == Logged(l, "GetObject", ok, in, e)
              IN  inv' = [inv EXCEPT ![i] =
                            IF ~ok
                            THEN Return(c, ZeroResult, <<GetObjectError(e)>>)
                            ELSE [c EXCEPT !.body = "open",
                                           !.stream = store[bk].body,
                                           !.defers = Append(@, "Body.Close"),
                                           !.pc = "ReadAll"]]
    /\ UNCHANGED <<procVars, store, served, skipped>>

\* Mutant of StepReadAll: a failed read fetches the object again instead of
\* returning the error.
StepReadAll_RetryFetch(i) ==
    /\ inv[i].pc = "ReadAll"
    /\ LET l == inv[i]
       IN  \E ok \in BOOLEAN :
              LET e == IF ok THEN LeafError("") ELSE LeafError("unexpected EOF")
                  c == Logged(l, "ReadAll", ok, l.body, e)
              IN  inv' = [inv EXCEPT ![i] =
                            IF ~ok
                            THEN [l EXCEPT !.pc = "GetObject",
                                           !.calls = SubSeq(@, 1, Len(@) - 1),
                                           !.body = IdleInv.body,
                                           !.stream = IdleInv.stream,
                                           !.defers = << >>]
                            ELSE [c EXCEPT !.imageBuffer = l.stream,
                                           !.originalSize = Len(l.stream),
                                           !.pc = "NewImageFromBuffer"]]
    /\ UNCHANGED <<procVars, store, served, skipped>>

\* imageBuffer, err := io.ReadAll(s3Object.Body); originalSize := len(...)
StepReadAll(i) ==
    /\ inv[i].pc = "ReadAll"
    /\ LET l == inv[i]
       IN  \E ok \in BOOLEAN :
              LET e == IF ok THEN LeafError("") ELSE LeafError("unexpected EOF")
                  c == Logged(l, "ReadAll", ok, l.body, e)
              IN  inv' = [inv EXCEPT ![i] =
                            IF ~ok
                            THEN Return(c, ZeroResult, <<ReadStreamError(e)>>)
                            ELSE [c EXCEPT !.imageBuffer = l.stream,
                                           !.originalSize = Len(l.stream),
                                           !.pc = "NewImageFromBuffer"]]
    /\ UNCHANGED <<procVars, store, served, skipped>>

\* Mutant of StepNewImageFromBuffer: the defer image.Close() is missing.
StepNewImageFromBuffer_NoDefer(i) ==
    /\ inv[i].pc = "NewImageFromBuffer"
    /\ LET l == inv[i]
           ok == Loadable(l.imageBuffer)
           e == IF ok THEN LeafError("") ELSE LeafError("unknown image format")
           c == Logged(l, "NewImageFromBuffer", ok, l.imageBuffer, e)
       IN  inv' = [inv EXCEPT ![i] =
                     IF ~ok
                     THEN Return(c, ZeroResult, <<VipsLoadError(e)>>)
                     ELSE [c EXCEPT !.image = "open", !.pc = "GetString"]]
    /\ UNCHANGED <<procVars, store, served, skipped>>

\* image, err := vips.NewImageFromBuffer(imageBuffer, nil); defer image.Close()
StepNewImageFromBuffer(i) ==
    /\ inv[i].pc = "NewImageFromBuffer"
    /\ LET l == inv[i]
           ok == Loadable(l.imageBuffer)
           e == IF ok THEN LeafError("") ELSE LeafError("unknown image format")
           c == Logged(l, "NewImageFromBuffer", ok, l.imageBuffer, e)
       IN  inv' = [inv EXCEPT ![i] =
                     IF ~ok
                     THEN Return(c, ZeroResult, <<VipsLoadError(e)>>)
                     ELSE [c EXCEPT !.image = "open",
                                    !.defers = Append(@, "image.Close"),
                                    !.pc = "GetString"]]
    /\ UNCHANGED <<procVars, store, served, skipped>>

\* Mutant of StepGetString: the already-AVIF test is missing, every image is
\* converted.
StepGetString_NoSkip(i) ==
    /\ inv[i].pc = "GetString"
    /\ LET l == inv[i]
       IN  \E ok \in BOOLEAN :
              LET e == IF ok THEN LeafError("") ELSE LeafError("field not found")
                  format == IF ok THEN LoaderLabel(l.imageBuffer) ELSE << >>
                  c == [Logged(l, "GetString", ok, l.image, e)
                          EXCEPT !.format = format]
              IN  inv' = [inv EXCEPT ![i] =
                            [c EXCEPT !.options = HeifsaveBufferOptions,
                                      !.pc = "HeifsaveBuffer"]]
    /\ UNCHANGED <<procVars, store, served, skipped>>

\* Mutant of StepGetString: a failed metadata read aborts the invocation.
StepGetString_AbortOnError(i) ==
    /\ inv[i].pc = "GetString"
    /\ LET l == inv[i]
       IN  \E ok \in BOOLEAN :
              LET e == IF ok THEN LeafError("") ELSE LeafError("field not found")
                  format == IF ok THEN LoaderLabel(l.imageBuffer) ELSE << >>
                  c == [Logged(l, "GetString", ok, l.image, e)
                          EXCEPT !.format = format]
              IN  inv' = [inv EXCEPT ![i] =
                            IF ~ok
                            THEN Return(c, ZeroResult,
                                        <<Errorf("failed to get image format metadata: ", "%w", e)>>)
                            ELSE IF HasPrefix(format, HeifloadPrefix)
                            THEN Return(c, SkippedResult(l.srcKey), << >>)
                            ELSE [c EXCEPT !.options = HeifsaveBufferOptions,
                                           !.pc = "HeifsaveBuffer"]]
    /\ UNCHANGED <<procVars, store, served, skipped>>

\* Mutant of StepGetString: the quality of the encode profile is taken from
\* the size of the fetched image.
StepGetString_QualityFromSize(i) ==
    /\ inv[i].pc = "GetString"
    /\ LET l == inv[i]
       IN  \E ok \in BOOLEAN :
              LET e == IF ok THEN LeafError("") ELSE LeafError("field not found")
                  format == IF ok THEN LoaderLabel(l.imageBuffer) ELSE << >>
                  c == [Logged(l, "GetString", ok, l.image, e)
                          EXCEPT !.format = format]
              IN  inv' = [inv EXCEPT ![i] =
                            IF ok /\ HasPrefix(format, HeifloadPrefix)
                            THEN Return(c, SkippedResult(l.srcKey), << >>)
                            ELSE [c EXCEPT !.options =
                                              [HeifsaveBufferOptions
                                                 EXCEPT !.Q = 50 + l.originalSize],
                                           !.pc = "HeifsaveBuffer"]]
    /\ UNCHANGED <<procVars, store, served, skipped>>

\* format, err := image.GetString("vips-loader"), the prefix test and the
\* skip return, or the options for the conversion.
StepGetString(i) ==
    /\ inv[i].pc = "GetString"
    /\ LET l == inv[i]
       IN  \E ok \in BOOLEAN :
              LET e == IF ok THEN LeafError("") ELSE LeafError("field not found")
                  format == IF ok THEN LoaderLabel(l.imageBuffer) ELSE << >>
                  c == [Logged(l, "GetString", ok, l.image, e)
                          EXCEPT !.format = format]
              IN  inv' = [inv EXCEPT ![i] =
                            IF ok /\ HasPrefix(format, HeifloadPrefix)
                            THEN Return(c, SkippedResult(l.srcKey), << >>)
                            ELSE [c EXCEPT !.options = HeifsaveBufferOptions,
                                           !.pc = "HeifsaveBuffer"]]
    /\ UNCHANGED <<procVars, store, served, skipped>>

\* Mutant of StepHeifsaveBuffer: the error check is missing, a failed encode
\* goes on to the upload with the empty buffer.
StepHeifsaveBuffer_NoAbort(i) ==
    /\ inv[i].pc = "HeifsaveBuffer"
    /\ LET l == inv[i]
       IN  \E ok \in BOOLEAN :
              LET e == IF ok THEN LeafError("") ELSE LeafError("heifsave: encoder failed")
                  c == Logged(l, "HeifsaveBuffer", ok,
                              [image |-> l.image, options |-> l.options], e)
                  out == IF ok THEN HeifEncode(l.imageBuffer, l.options) ELSE << >>
              IN  inv' = [inv EXCEPT ![i] =
                            [c EXCEPT !.avifBuffer = out,
                                      !.avifBufferSize = Len(out),
                                      !.newKey = replaceExtension(l.srcKey, AvifExt),
                                      !.pc = "PutObject"]]
    /\ UNCHANGED <<procVars, store, served, skipped>>

\* avifBuffer, err := image.HeifsaveBuffer(options); avifBufferSize;
\* newKey := replaceExtension(srcKey, ".avif")
StepHeifsaveBuffer(i) ==
    /\ inv[i].pc = "HeifsaveBuffer"
    /\ LET l == inv[i]
       IN  \E ok \in BOOLEAN :
              LET e == IF ok THEN LeafError("") ELSE LeafError("heifsave: encoder failed")
                  c == Logged(l, "HeifsaveBuffer", ok,
                              [image |-> l.image, options |-> l.options], e)
                  out == HeifEncode(l.imageBuffer, l.options)
              IN  inv' = [inv EXCEPT ![i] =
                            IF ~ok
                            THEN Return(c, ZeroResult, <<EncodeError(e)>>)
                            ELSE [c EXCEPT !.avifBuffer = out,
                                           !.avifBufferSize = Len(out),
                                           !.newKey = replaceExtension(l.srcKey, AvifExt),
                                           !.pc = "PutObject"]]
    /\ UNCHANGED <<procVars, store, served, skipped>>

\* Mutant of PutObjectInput: the content length is the source's size.
PutObjectInput_SourceLength(l) ==
    [Bucket |-> l.event.S3Bucket, Key |-> l.newKey, Body |-> l.avifBuffer,
     ContentType |-> "image/avif", ContentLength |-> l.originalSize,
     ChecksumAlgorithm |-> "SHA256"]

\* The PutObjectInput the handler builds.
PutObjectInput(l) ==
    [Bucket |-> l.event.S3Bucket, Key |-> l.newKey, Body |-> l.avifBuffer,
     ContentType |-> "image/avif", ContentLength |-> l.avifBufferSize,
     ChecksumAlgorithm |-> "SHA256"]

\* Mutant of StepPutObject: a failed upload starts over from the fetch.
StepPutObject_RetryFetch(i) ==
    /\ inv[i].pc = "PutObject"
    /\ LET l == inv[i]
           in == PutObjectInput(l)
       IN  \E ok \in BOOLEAN :
              LET e == IF ok THEN LeafError("") ELSE LeafError("AccessDenied")
                  c == Logged(l, "PutObject", ok, in, e)
              IN  /\ inv' = [inv EXCEPT ![i] =
                               IF ~ok
                               THEN [c EXCEPT !.pc = "GetObject"]
                               ELSE Return(c, ConvertedResult(l.srcKey, l.newKey), << >>)]
                  /\ store' = IF ok THEN StorePut(store, in) ELSE store
    /\ UNCHANGED <<procVars, served, skipped>>

\* Mutant of StepPutObject: the error of PutObject is not checked.
StepPutObject_IgnoreError(i) ==
    /\ inv[i].pc = "PutObject"
    /\ LET l == inv[i]
           in == PutObjectInput(l)
       IN  \E ok \in BOOLEAN :
              LET e == IF ok THEN LeafError("") ELSE LeafError("AccessDenied")
                  c == Logged(l, "PutObject", ok, in, e)
              IN  /\ inv' = [inv EXCEPT ![i] =
                               Return(c, ConvertedResult(l.srcKey, l.newKey), << >>)]
                  /\ store' = IF ok THEN StorePut(store, in) ELSE store
    /\ UNCHANGED <<procVars, served, skipped>>

\* _, err = s3Client.PutObject(...) and the final return.  A successful put
\* stores the object; a failed one leaves the bucket as it was.
StepPutObject(i) ==
    /\ inv[i].pc = "PutObject"
    /\ LET l == inv[i]
           in == PutObjectInput(l)
       IN  \E ok \in BOOLEAN :
              LET e == IF ok THEN LeafError("") ELSE LeafError("AccessDenied")
                  c == Logged(l, "PutObject", ok, in, e)
              IN  /\ inv' = [inv EXCEPT ![i] =
                               IF ~ok
                               THEN Return(c, ZeroResult, <<UploadError(e)>>)
                               ELSE Return(c, ConvertedResult(l.srcKey, l.newKey), << >>)]
                  /\ store' = IF ok THEN StorePut(store, in) ELSE store
    /\ UNCHANGED <<procVars, served, skipped>>

\* The deferred calls run last-in first-out when the function returns:
\* image.Close(), then s3Object.Body.Close().
StepDefer(i) ==
    /\ inv[i].pc = "defer"
    /\ LET l == inv[i]
           n == Len(l.defers)
           d == l.defers[n]
           rest == SubSeq(l.defers, 1, n - 1)
           c == Logged(l, d, TRUE, IF d = "image.Close" THEN l.image ELSE l.body,
                       LeafError(""))
       IN  inv' = [inv EXCEPT ![i] =
                     [c EXCEPT !.defers = rest,
                               !.image = IF d = "image.Close" THEN "closed" ELSE @,
                               !.body = IF d = "Body.Close" THEN "closed" ELSE @,
                               !.pc = IF rest = << >> THEN "returned" ELSE "defer"]]
    /\ UNCHANGED <<procVars, store, served, skipped>>

Next ==
    \/ InitFn
    \/ Main
    \/ \E i \in Slots : Invoke(i)
    \/ \E i \in Slots : StepQueryUnescape(i)
    \/ \E i \in Slots : StepGetObject(i)
    \/ \E i \in Slots : StepReadAll(i)
    \/ \E i \in Slots : StepNewImageFromBuffer(i)
    \/ \E i \in Slots : StepGetString(i)
    \/ \E i \in Slots : StepHeifsaveBuffer(i)
    \/ \E i \in Slots : StepPutObject(i)
    \/ \E i \in Slots : StepDefer(i)
    \/ \E i \in Slots : Respond(i)

Spec == Init /\ [][Next]_vars

\* ------------------------------------------------------ reading a call

\* The indices of the calls of op in the record of calls of l.
CallsOf(l, op) == {k \in DOMAIN l.calls : l.calls[k].op = op}

Called(l, op) == CallsOf(l, op) # {}

Succeeded(l, op) == \E k \in CallsOf(l, op) : l.calls[k].ok

Failed(l, op) == \E k \in CallsOf(l, op) : ~l.calls[k].ok

Returned(i) == inv[i].pc = "returned"

\* The calls that release a resource; every other call belongs to a stage.
ReleaseOps == {"image.Close", "Body.Close"}

\* The stage each collaborator call belongs to.
StageOfOp(op) ==
    CASE op = "QueryUnescape" -> "KeyDecode"
      [] op \in {"GetObject", "ReadAll"} -> "Fetch"
      [] op = "NewImageFromBuffer" -> "Decode"
      [] op = "GetString" -> "FormatCheck"
      [] op = "HeifsaveBuffer" -> "Encode"
      [] op = "PutObject" -> "Upload"
      [] OTHER -> "Release"

\* How a caller reads the stage off a returned error: by the message the
\* error text starts with.
StagesOfMessage(e) ==
    {st \in {"KeyDecode", "Fetch", "Decode", "Encode", "Upload"} :
        \/ st = "KeyDecode" /\ e.text[1] = "failed to decode S3 key: "
        \/ st = "Fetch" /\ e.text[1] \in {"failed to get object from S3: ",
                                          "failed to read image from S3 stream: "}
        \/ st = "Decode" /\ e.text[1] = "failed to process image with vips from buffer: "
        \/ st = "Encode" /\ e.text[1] = "failed to encode image to AVIF: vips_error: "
        \/ st = "Upload" /\ e.text[1] = "failed to upload AVIF image to S3: "}

\* s begins with p, spelled out element by element.
BeginsWith(s, p) ==
    Len(s) >= Len(p) /\ \A k \in 1..Len(p) : s[k] = p[k]

\* ------------------------------------------------------------------ claims

\* C1: whenever the metadata read succeeded and the loader label begins with
\* "heifload", the handler returns the skipped status with originalKey the
\* decoded key, a non-empty message, no newKey and no error, and has made no
\* encode call and no PutObject call; the buckets are as they were.
C1_SkipPath ==
    \A i \in Slots :
        LET l == inv[i]
        IN  (l.pc \in {"defer", "returned"}
             /\ Succeeded(l, "GetString")
             /\ BeginsWith(l.format, HeifloadPrefix))
            => /\ l.ret.Status = "SKIPPED_ALREADY_AVIF"
               /\ l.ret.OriginalKey = QueryUnescape(l.event.S3Key).val
               /\ l.ret.Message # ""
               /\ l.ret.NewKey = << >>
               /\ l.err = << >>
               /\ ~Called(l, "PutObject")
               /\ ~Called(l, "HeifsaveBuffer")
               /\ store = l.storeAtInvoke

\* A returned invocation whose metadata read reported "heifload_buffer", a
\* label longer than the prefix.
C1_Witness ==
    \E i \in Slots :
        /\ Returned(i)
        /\ Succeeded(inv[i], "GetString")
        /\ BeginsWith(inv[i].format, HeifloadPrefix)
        /\ inv[i].format # HeifloadPrefix
        /\ inv[i].ret.Status = "SKIPPED_ALREADY_AVIF"

\* C2: CONVERTED is returned only when the PutObject call succeeded; when the
\* encode succeeded and PutObject failed, the handler returns an upload-stage
\* error with the zero ConversionResult, and the buckets are as they were.
C2_NoPartialSuccess ==
    \A i \in Slots :
        LET l == inv[i]
        IN  /\ l.ret.Status = "CONVERTED" => Succeeded(l, "PutObject")
            /\ (Returned(i) /\ Succeeded(l, "HeifsaveBuffer") /\ Failed(l, "PutObject"))
               => /\ l.err # << >>
                  /\ StagesOfMessage(l.err[1]) = {"Upload"}
                  /\ l.ret = ZeroResult
                  /\ store = l.storeAtInvoke

\* A returned invocation whose encode succeeded and whose upload failed.
C2_Witness ==
    \E i \in Slots :
        /\ Returned(i)
        /\ Succeeded(inv[i], "HeifsaveBuffer")
        /\ Failed(inv[i], "PutObject")
        /\ inv[i].err # << >>

\* The object the invocation names, as it was stored when the call began, is
\* in the target format.
SourceIsTargetFormat(l) ==
    LET bk == <<l.event.S3Bucket, l.srcKey>>
    IN  /\ bk \in DOMAIN l.storeAtInvoke
        /\ l.storeAtInvoke[bk].body[1] = Magic.heif

\* The statement of C3 as it was made: an invocation on a target-format
\* object that was fetched and decoded returns the skipped status and makes no
\* PutObject call, whatever the metadata read answered.
C3_SkipWhateverMetadataAnswers ==
    \A i \in Slots :
        LET l == inv[i]
        IN  (Returned(i) /\ SourceIsTargetFormat(l)
             /\ Succeeded(l, "NewImageFromBuffer"))
            => /\ l.ret.Status = "SKIPPED_ALREADY_AVIF"
               /\ ~Called(l, "PutObject")

\* C3 (amended): every invocation on a target-format object whose fetch,
\* decode and metadata read succeed returns the skipped status, makes no
\* PutObject call and leaves the buckets as they were, so the object is still
\* in the target format for the next invocation, however often it is repeated.
C3_SkipIdempotent ==
    \A i \in Slots :
        LET l == inv[i]
        IN  (Returned(i) /\ SourceIsTargetFormat(l) /\ Succeeded(l, "GetString"))
            => /\ l.ret.Status = "SKIPPED_ALREADY_AVIF"
               /\ l.err = << >>
               /\ ~Called(l, "PutObject")
               /\ store = l.storeAtInvoke

\* A repeated invocation: the object was skipped by an earlier, answered
\* invocation and is skipped again.
C3_Witness ==
    \E i \in Slots :
        /\ Returned(i)
        /\ SourceIsTargetFormat(inv[i])
        /\ Succeeded(inv[i], "GetString")
        /\ <<inv[i].event.S3Bucket, inv[i].srcKey>> \in skipped
        /\ inv[i].ret.Status = "SKIPPED_ALREADY_AVIF"

\* The stages before the upload all succeeded and the metadata read failed.
MetadataFailedOnly(l) ==
    /\ Failed(l, "GetString")
    /\ Succeeded(l, "QueryUnescape")
    /\ Succeeded(l, "GetObject")
    /\ Succeeded(l, "ReadAll")
    /\ Succeeded(l, "NewImageFromBuffer")
    /\ Succeeded(l, "HeifsaveBuffer")

\* The statement of C4 as it was made: with the metadata read failed and key
\* decode, fetch, image decode and encode succeeded, the invocation ends with
\* status CONVERTED.
C4_MetadataFailureEndsConverted ==
    \A i \in Slots :
        (Returned(i) /\ MetadataFailedOnly(inv[i]))
        => inv[i].ret.Status = "CONVERTED"

\* C4 (amended): a failed metadata read does not end the invocation: the
\* format is left unknown (not the target format), the encode is called, after
\* a successful encode the upload is called, and when the upload succeeds too
\* the invocation ends with status CONVERTED and no error.
C4_MetadataResilience ==
    \A i \in Slots :
        LET l == inv[i]
        IN  /\ (Failed(l, "GetString") /\ l.pc \in {"defer", "returned"})
               => /\ Called(l, "HeifsaveBuffer")
                  /\ ~BeginsWith(l.format, HeifloadPrefix)
            /\ (Failed(l, "GetString") /\ Succeeded(l, "HeifsaveBuffer")
                /\ l.pc \in {"defer", "returned"})
               => Called(l, "PutObject")
            /\ (Returned(i) /\ MetadataFailedOnly(l) /\ Succeeded(l, "PutObject"))
               => /\ l.ret.Status = "CONVERTED"
                  /\ l.err = << >>

\* A returned invocation whose metadata read failed and which converted.
C4_Witness ==
    \E i \in Slots :
        /\ Returned(i)
        /\ MetadataFailedOnly(inv[i])
        /\ Succeeded(inv[i], "PutObject")
        /\ inv[i].ret.Status = "CONVERTED"

\* C5: an invocation that ends CONVERTED made exactly one PutObject call, to
\* the bucket of the request, under replaceExtension(decoded key, ".avif"),
\* with content type image/avif, the encoder's output as body, that buffer's
\* length as content length and a checksum algorithm; newKey is that key and
\* the object is in the bucket.
C5_UploadShape ==
    \A i \in Slots :
        LET l == inv[i]
            key == replaceExtension(QueryUnescape(l.event.S3Key).val, AvifExt)
            encoded == HeifEncode(l.imageBuffer, HeifsaveBufferOptions)
        IN  (Returned(i) /\ l.ret.Status = "CONVERTED")
            => /\ Cardinality(CallsOf(l, "PutObject")) = 1
               /\ \A k \in CallsOf(l, "PutObject") :
                     LET in == l.calls[k].arg
                     IN  /\ in.Bucket = l.event.S3Bucket
                         /\ in.Key = key
                         /\ in.ContentType = "image/avif"
                         /\ in.Body = encoded
                         /\ in.ContentLength = Len(encoded)
                         /\ in.ChecksumAlgorithm = "SHA256"
               /\ l.ret.NewKey = key
               /\ <<l.event.S3Bucket, key>> \in DOMAIN store
               /\ store[<<l.event.S3Bucket, key>>] = StoredObject(encoded, "image/avif")

\* A conversion in bucket b2 of a key without extension, whose source and
\* encoded lengths differ.
C5_Witness ==
    \E i \in Slots :
        /\ Returned(i)
        /\ inv[i].ret.Status = "CONVERTED"
        /\ inv[i].event.S3Bucket = "b2"
        /\ inv[i].originalSize # inv[i].avifBufferSize

\* C6: no collaborator operation is called twice in one invocation, and after
\* a failed call other than the metadata read only the deferred release calls
\* follow.
C6_FailFast ==
    \A i \in Slots :
        LET l == inv[i]
        IN  /\ \A k, m \in DOMAIN l.calls :
                  l.calls[k].op = l.calls[m].op => k = m
            /\ \A k, m \in DOMAIN l.calls :
                  (~l.calls[k].ok /\ l.calls[k].op # "GetString" /\ m > k)
                  => l.calls[m].op \in ReleaseOps

\* A returned invocation whose encode failed: the two release calls followed.
C6_Witness ==
    \E i \in Slots :
        /\ Returned(i)
        /\ Failed(inv[i], "HeifsaveBuffer")
        /\ Called(inv[i], "image.Close")
        /\ Called(inv[i], "Body.Close")

\* C7: the error a failed invocation returns names exactly one stage by its
\* message, and it is the stage of the collaborator call that failed.
C7_StageIdentified ==
    \A i \in Slots :
        LET l == inv[i]
        IN  (Returned(i) /\ l.err # << >>)
            => \E k \in DOMAIN l.calls :
                  /\ ~l.calls[k].ok
                  /\ l.calls[k].op # "GetString"
                  /\ StagesOfMessage(l.err[1]) = {StageOfOp(l.calls[k].op)}

\* A returned invocation whose upload failed, read as an upload-stage error.
C7_Witness ==
    \E i \in Slots :
        /\ Returned(i)
        /\ inv[i].err # << >>
        /\ Failed(inv[i], "PutObject")
        /\ StagesOfMessage(inv[i].err[1]) = {"Upload"}

\* C8: the error a failed invocation returns wraps the error of the
\* collaborator call that failed, for every stage.
C8_EveryStageWraps ==
    \A i \in Slots :
        LET l == inv[i]
        IN  (Returned(i) /\ l.err # << >>)
            => \E k \in DOMAIN l.calls :
                  /\ ~l.calls[k].ok
                  /\ l.calls[k].op # "GetString"
                  /\ l.err[1].wraps = <<l.calls[k].err>>

\* C9: the image handle is never used after its release and never released
\* twice; an invocation that returns after a successful image decode has
\* released the handle exactly once, after the metadata read and the encode;
\* one whose image decode failed or never ran holds no handle.
C9_HandleReleased ==
    \A i \in Slots :
        LET l == inv[i]
        IN  /\ Cardinality(CallsOf(l, "image.Close")) <= 1
            /\ \A k \in DOMAIN l.calls :
                  /\ l.calls[k].op = "GetString" => l.calls[k].arg = "open"
                  /\ l.calls[k].op = "HeifsaveBuffer" => l.calls[k].arg.image = "open"
                  /\ l.calls[k].op = "image.Close" => l.calls[k].arg = "open"
            /\ Returned(i) =>
                  /\ l.image # "open"
                  /\ Succeeded(l, "NewImageFromBuffer")
                     => /\ l.image = "closed"
                        /\ Cardinality(CallsOf(l, "image.Close")) = 1
                        /\ \A c \in CallsOf(l, "image.Close") :
                              \A k \in CallsOf(l, "GetString") \cup CallsOf(l, "HeifsaveBuffer") :
                                 k < c
                  /\ ~Succeeded(l, "NewImageFromBuffer")
                     => /\ l.image = "nil"
                        /\ ~Called(l, "image.Close")

\* A returned invocation whose upload failed after the handle was used by
\* the metadata read and the encode: the handle is closed.
C9_Witness ==
    \E i \in Slots :
        /\ Returned(i)
        /\ Failed(inv[i], "PutObject")
        /\ Called(inv[i], "GetString")
        /\ inv[i].image = "closed"

\* C10: init() runs at most once; an invocation runs or has been answered
\* only in a process whose init() ran once and succeeded, with the S3 client
\* set and vips started; after a failed init() the process has exited and no
\* invocation has run.
C10_InitOnce ==
    /\ initRuns <= 1
    /\ ((served > 0 \/ \E i \in Slots : inv[i].pc # "idle")
        => /\ initRuns = 1
           /\ ~initFailed
           /\ s3Client = "client"
           /\ vipsStarted
           /\ procPc = "serving")
    /\ (initFailed
        => /\ procPc = "exited"
           /\ served = 0
           /\ \A i \in Slots : inv[i].pc = "idle")

\* A third invocation running in a process whose init() ran once.
C10_Witness ==
    /\ served >= 2
    /\ initRuns = 1
    /\ \E i \in Slots : inv[i].pc = "PutObject"

\* ------------------------------------------- interleaved invocations

\* HandleRequest called for a new event while other calls are still running:
\* the handler as a runtime would drive it that does not wait for the previous
\* call to return.
InvokeInterleaved(i) ==
    /\ procPc = "serving"
    /\ inv[i].pc = "idle"
    /\ served + Cardinality({k \in Slots : inv[k].pc # "idle"}) < MaxInterleaved
    /\ \E ev \in Events :
          inv' = [inv EXCEPT ![i] =
                    [IdleInv EXCEPT !.pc = "QueryUnescape", !.event = ev,
                                    !.storeAtInvoke = store]]
    /\ UNCHANGED <<procVars, store, served, skipped>>

NextInterleaved ==
    \/ InitFn
    \/ Main
    \/ \E i \in Slots : InvokeInterleaved(i)
    \/ \E i \in Slots : StepQueryUnescape(i)
    \/ \E i \in Slots : StepGetObject(i)
    \/ \E i \in Slots : StepReadAll(i)
    \/ \E i \in Slots : StepNewImageFromBuffer(i)
    \/ \E i \in Slots : StepGetString(i)
    \/ \E i \in Slots : StepHeifsaveBuffer(i)
    \/ \E i \in Slots : StepPutObject(i)
    \/ \E i \in Slots : StepDefer(i)
    \/ \E i \in Slots : Respond(i)

SpecInterleaved == Init /\ [][NextInterleaved]_vars

\* The locals of a call come from its own event and its own earlier steps.
OwnLocals(l) ==
    /\ l.srcKey # << >> => l.srcKey = QueryUnescape(l.event.S3Key).val
    /\ \A k \in CallsOf(l, "GetObject") :
          l.calls[k].arg = [Bucket |-> l.event.S3Bucket, Key |-> l.srcKey]
    /\ l.imageBuffer # << >> => l.imageBuffer = l.stream
    /\ l.avifBuffer # << >> => l.avifBuffer = HeifEncode(l.imageBuffer, l.options)
    /\ \A k \in CallsOf(l, "PutObject") :
          /\ l.calls[k].arg.Bucket = l.event.S3Bucket
          /\ l.calls[k].arg.Body = l.avifBuffer
    /\ l.ret \in {ZeroResult, SkippedResult(l.srcKey),
                  ConvertedResult(l.srcKey, l.newKey)}

\* C11: with calls of HandleRequest interleaved in one process, no step after
\* init changes the package state (s3Client, the started vips), a step changes
\* the locals of one call only, and the decoded key, image buffer, encoded
\* buffer, upload and result of every call come from its own event and its own
\* earlier steps.
C11_NoSharedMutableState ==
    [][/\ procPc = "serving" => UNCHANGED <<s3Client, vipsStarted, initRuns>>
       /\ \A i, j \in Slots :
             (i # j /\ inv'[i] # inv[i]) => inv'[j] = inv[j]
       /\ \A i \in Slots : OwnLocals(inv'[i])]_vars

\* Two calls in flight at once on different keys, one about to upload and the
\* other about to encode.
C11_Witness ==
    /\ inv[1].pc = "PutObject"
    /\ inv[2].pc = "HeifsaveBuffer"
    /\ inv[1].srcKey # inv[2].srcKey

\* ------------------------------------------------- the key functions

\* The characters the enumerated literal keys are made of: a letter, the dot,
\* the path separator and the three characters the escaping treats specially.
KeyAlphabet == {Ch.a, Ch.dot, Ch.slash, Ch.plus, Ch.pct, Ch.sp}

StringsUpTo(A, n) == UNION {[1..m -> A] : m \in 0..n}

\* Longer keys checked by name.
KeyPhotoJpg == <<Ch.a, Ch.slash, Ch.b, Ch.slash, Ch.p, Ch.h, Ch.o, Ch.t, Ch.o,
                 Ch.dot, Ch.j, Ch.p, Ch.g>>                       \* "a/b/photo.jpg"
KeyPhoto == SubSeq(KeyPhotoJpg, 1, 9)                             \* "a/b/photo"
KeyABJpg == <<Ch.a, Ch.dot, Ch.b, Ch.dot, Ch.j, Ch.p, Ch.g>>      \* "a.b.jpg"
KeyNoextDot == <<Ch.n, Ch.o, Ch.e, Ch.x, Ch.t, Ch.dot>>           \* "noext."
KeyDotDir == <<Ch.a, Ch.dot, Ch.b, Ch.slash, Ch.p>>               \* "a.b/p"

ExampleKeys == {KeyPhotoJpg, KeyPhoto, KeyABJpg, KeyNoextDot, KeyDotDir}

\* The literal keys an object may be stored under.
LiteralKeys == StringsUpTo(KeyAlphabet, MaxKeyLen) \cup ExampleKeys

\* "0123456789ABCDEF"[n] as a byte.
UpperHex(n) == IF n < 10 THEN 48 + n ELSE 65 + n - 10

\* RFC 3986 unreserved characters: letters, digits, '-', '.', '_', '~'.
Unreserved(c) ==
    \/ (48 <= c /\ c <= 57)
    \/ (65 <= c /\ c <= 90)
    \/ (97 <= c /\ c <= 122)
    \/ c \in {45, 46, 95, 126}

\* Percent-encoding of a literal key by the sender of the event: every byte
\* that is not unreserved becomes "%XY".
RECURSIVE PercentEncode(_)
PercentEncode(s) ==
    IF s = << >> THEN << >>
    ELSE (IF Unreserved(s[1]) THEN <<s[1]>>
          ELSE <<Ch.pct, UpperHex(s[1] \div 16), UpperHex(s[1] % 16)>>)
         \o PercentEncode(Tail(s))

\* The form-style variant of the encoding (url.QueryEscape, the encoding of
\* the keys in S3 event notifications): as PercentEncode, with ' ' sent as '+'.
RECURSIVE QueryEscape(_)
QueryEscape(s) ==
    IF s = << >> THEN << >>
    ELSE (IF s[1] = Ch.sp THEN <<Ch.plus>>
          ELSE IF Unreserved(s[1]) THEN <<s[1]>>
          ELSE <<Ch.pct, UpperHex(s[1] \div 16), UpperHex(s[1] % 16)>>)
         \o QueryEscape(Tail(s))

\* The raw keys an event may carry: a literal key sent as it is, or sent
\* encoded either way.
KeyInputs ==
    LiteralKeys
    \cup {PercentEncode(k) : k \in LiteralKeys}
    \cup {QueryEscape(k) : k \in LiteralKeys}

\* The bucket holding one JPEG under the key the raw key decodes to (nothing,
\* if the raw key does not decode).
StoreFor(raw) ==
    LET r == QueryUnescape(raw)
    IN  IF r.ok
        THEN (<<"b1", r.val>> :> StoredObject(JpegB, "image/jpeg"))
        ELSE << >>

\* A warm process in which the runtime has just called HandleRequest with an
\* event carrying one of the raw keys.
InitKeys ==
    /\ procPc = "serving"
    /\ s3Client = "client"
    /\ vipsStarted = TRUE
    /\ initRuns = 1
    /\ initFailed = FALSE
    /\ served = 0
    /\ skipped = {}
    /\ \E raw \in KeyInputs :
          /\ store = StoreFor(raw)
          /\ inv = [i \in Slots |->
                      IF i = 1
                      THEN [IdleInv EXCEPT !.pc = "QueryUnescape",
                                           !.event = [S3Bucket |-> "b1", S3Key |-> raw],
                                           !.storeAtInvoke = StoreFor(raw)]
                      ELSE IdleInv]

\* The steps of the one call.
NextKeys ==
    \/ \E i \in Slots : StepQueryUnescape(i)
    \/ \E i \in Slots : StepGetObject(i)
    \/ \E i \in Slots : StepReadAll(i)
    \/ \E i \in Slots : StepNewImageFromBuffer(i)
    \/ \E i \in Slots : StepGetString(i)
    \/ \E i \in Slots : StepHeifsaveBuffer(i)
    \/ \E i \in Slots : StepPutObject(i)
    \/ \E i \in Slots : StepDefer(i)

SpecKeys == InitKeys /\ [][NextKeys]_vars

\* The largest element of a non-empty set of numbers.
MaxOf(S) == CHOOSE m \in S : \A k \in S : k <= m

\* The positions of the dots in the last slash-separated element of key.
DotsOfLastElement(key) ==
    LET slashes == {k \in DOMAIN key : key[k] = Ch.slash}
        lastSlash == IF slashes = {} THEN 0 ELSE MaxOf(slashes)
    IN  {k \in DOMAIN key : k > lastSlash /\ key[k] = Ch.dot}

\* The destination key as C12 describes it: the last dot-segment of the last
\* element replaced by ext, or ext appended when that element has no dot.
DerivedKeyAsClaimed(key, ext) ==
    LET dots == DotsOfLastElement(key)
    IN  IF dots = {} THEN key \o ext
        ELSE SubSeq(key, 1, MaxOf(dots) - 1) \o ext

\* C12: replaceExtension always yields a key; it replaces only the last
\* dot-segment of a key that has an extension, appends the target extension to
\* a key without one, puts it in place of a trailing dot, and never takes a
\* dot of a directory part for the extension: "a/b/photo.jpg", "a/b/photo",
\* "a.b.jpg", "noext." and "a.b/p" give "a/b/photo.avif", "a/b/photo.avif",
\* "a.b.avif", "noext.avif" and "a.b/p.avif".
C12_DeriveTargetKey ==
    \A i \in Slots :
        LET l == inv[i]
        IN  Succeeded(l, "HeifsaveBuffer")
            => /\ l.newKey = DerivedKeyAsClaimed(l.srcKey, AvifExt)
               /\ Len(l.newKey) >= Len(AvifExt)
               /\ l.srcKey = KeyPhotoJpg => l.newKey = KeyPhoto \o AvifExt
               /\ l.srcKey = KeyPhoto => l.newKey = KeyPhoto \o AvifExt
               /\ l.srcKey = KeyABJpg => l.newKey = <<Ch.a, Ch.dot, Ch.b>> \o AvifExt
               /\ l.srcKey = KeyNoextDot
                  => l.newKey = <<Ch.n, Ch.o, Ch.e, Ch.x, Ch.t>> \o AvifExt
               /\ l.srcKey = KeyDotDir => l.newKey = KeyDotDir \o AvifExt
               /\ (l.srcKey # << >> /\ l.srcKey[Len(l.srcKey)] = Ch.dot)
                  => l.newKey = SubSeq(l.srcKey, 1, Len(l.srcKey) - 1) \o AvifExt

\* The key "a.b/p", whose only dot is in the directory part, derived.
C12_Witness ==
    \E i \in Slots :
        /\ inv[i].srcKey = KeyDotDir
        /\ inv[i].newKey = KeyDotDir \o AvifExt
        /\ Succeeded(inv[i], "HeifsaveBuffer")

\* Every encoded form of every literal key, with the literal key.
EncodedPairs ==
    {<<PercentEncode(k), k>> : k \in LiteralKeys}
    \cup {<<QueryEscape(k), k>> : k \in LiteralKeys}

\* C13: when the raw key of the event is the percent-encoding (in either
\* style) of a literal key, the key decode succeeds and yields exactly that
\* literal key, and the fetch is made with it.
C13_DecodeRoundTrip ==
    \A i \in Slots :
        LET l == inv[i]
        IN  Len(l.calls) \in {1, 2}
            => \A pr \in EncodedPairs :
                  pr[1] = l.event.S3Key
                  => /\ Succeeded(l, "QueryUnescape")
                     /\ l.srcKey = pr[2]
                     /\ \A k \in CallsOf(l, "GetObject") : l.calls[k].arg.Key = pr[2]

\* The literal key "+% " sent as "%2B%25+" and fetched under its literal form.
C13_Witness ==
    \E i \in Slots :
        /\ inv[i].event.S3Key = QueryEscape(<<Ch.plus, Ch.pct, Ch.sp>>)
        /\ inv[i].event.S3Key # <<Ch.plus, Ch.pct, Ch.sp>>
        /\ inv[i].srcKey = <<Ch.plus, Ch.pct, Ch.sp>>
        /\ \E k \in CallsOf(inv[i], "GetObject") :
              inv[i].calls[k].arg.Key = <<Ch.plus, Ch.pct, Ch.sp>>

\* s contains the byte c.
Contains(s, c) == \E k \in DOMAIN s : s[k] = c

\* The statement of C14 as it was made: for every raw key whose decode
\* succeeded, decoding the decoded key again succeeds and yields the decoded
\* key.
C14_DecodeIdempotent ==
    \A i \in Slots :
        LET l == inv[i]
        IN  (Len(l.calls) = 1 /\ Succeeded(l, "QueryUnescape"))
            => /\ QueryUnescape(l.srcKey).ok
               /\ QueryUnescape(l.srcKey).val = l.srcKey

\* C14 (amended): the key decode returns a key that contains neither '+' nor
\* '%' unchanged, so decode(decode(k)) = decode(k) for every raw key k whose
\* decoded form contains neither; a decoded key that contains '+' or '%' is
\* changed or rejected by a second decode.
C14_DecodeIdempotentOnPlainKeys ==
    \A i \in Slots :
        LET l == inv[i]
            plain(s) == ~Contains(s, Ch.plus) /\ ~Contains(s, Ch.pct)
        IN  (Len(l.calls) = 1 /\ Succeeded(l, "QueryUnescape"))
            => /\ plain(l.event.S3Key) => l.srcKey = l.event.S3Key
               /\ plain(l.srcKey)
                  <=> (QueryUnescape(l.srcKey).ok
                       /\ QueryUnescape(l.srcKey).val = l.srcKey)

\* The raw key "a/." decoded to itself, and decoded again to itself.
C14_Witness ==
    \E i \in Slots :
        /\ Len(inv[i].calls) = 1
        /\ Succeeded(inv[i], "QueryUnescape")
        /\ inv[i].event.S3Key = <<Ch.a, Ch.slash, Ch.dot>>
        /\ inv[i].srcKey = <<Ch.a, Ch.slash, Ch.dot>>
        /\ QueryUnescape(inv[i].srcKey).val = inv[i].srcKey

\* C15: what HandleRequest returns is either an error with the zero
\* ConversionResult, or no error with status CONVERTED or the skipped status;
\* newKey is set exactly when the status is CONVERTED, and message is set only
\* on the skipped result.
C15_ResultShape ==
    \A i \in Slots :
        LET l == inv[i]
        IN  Returned(i)
            => /\ l.err # << >> => l.ret = ZeroResult
               /\ l.err = << >>
                  => l.ret.Status \in {"CONVERTED", "SKIPPED_ALREADY_AVIF"}
               /\ l.ret.NewKey # << >> <=> l.ret.Status = "CONVERTED"
               /\ l.ret.Message # "" => l.ret.Status = "SKIPPED_ALREADY_AVIF"

\* A returned conversion of the key "a b", which has no extension.
C15_Witness ==
    \E i \in Slots :
        /\ Returned(i)
        /\ inv[i].err = << >>
        /\ inv[i].ret.Status = "CONVERTED"
        /\ inv[i].ret.OriginalKey = KeyASpB
        /\ inv[i].ret.NewKey # << >>

\* ------------------------------------------------- termination (fairness)

\* One step of the invocation in slot i: a collaborator call returning, or a
\* deferred release running.
HandlerStep(i) ==
    \/ StepQueryUnescape(i)
    \/ StepGetObject(i)
    \/ StepReadAll(i)
    \/ StepNewImageFromBuffer(i)
    \/ StepGetString(i)
    \/ StepHeifsaveBuffer(i)
    \/ StepPutObject(i)
    \/ StepDefer(i)

\* The sequential process under the assumption that every collaborator call
\* of a running invocation eventually returns: the goroutine running
\* HandleRequest keeps being scheduled, so its next step is eventually taken.
SpecFair ==
    Init /\ [][Next]_vars /\ \A i \in Slots : WF_vars(HandlerStep(i))

\* The calls of l that belong to a stage.
StageCalls(l) == SelectSeq(l.calls, LAMBDA c : c.op \notin ReleaseOps)

\* C16: every started invocation eventually returns; what it returns is
\* exactly one of an error and a ConversionResult with status CONVERTED or
\* skipped; and once the outcome is fixed the invocation keeps it and calls no
\* further stage, only the deferred releases.
C16_ReachesOneOutcome ==
    /\ \A i \in Slots :
          (inv[i].pc = "QueryUnescape") ~> (inv[i].pc = "returned")
    /\ [](\A i \in Slots :
            Returned(i)
            => (inv[i].err # << >>)
               = ~(inv[i].ret.Status \in {"CONVERTED", "SKIPPED_ALREADY_AVIF"}))
    /\ [][\A i \in Slots :
            inv[i].pc \in {"defer", "returned"}
            => \/ inv'[i] = IdleInv
               \/ /\ inv'[i].pc \in {"defer", "returned"}
                  /\ inv'[i].ret = inv[i].ret
                  /\ inv'[i].err = inv[i].err
                  /\ StageCalls(inv'[i]) = StageCalls(inv[i])]_vars

\* An invocation that went through every stage, failed at the last one, ran
\* both deferred releases and returned the error.
C16_Witness ==
    \E i \in Slots :
        /\ Returned(i)
        /\ inv[i].err # << >>
        /\ Failed(inv[i], "PutObject")
        /\ Called(inv[i], "image.Close")
        /\ Called(inv[i], "Body.Close")
        /\ inv[i].defers = << >>

\* The options of the HeifsaveBuffer calls made so far by the invocation in
\* slot i.
EncodeProfiles(i) ==
    {inv[i].calls[k].arg.options : k \in CallsOf(inv[i], "HeifsaveBuffer")}

\* C17: every call of the encoder is given quality 50, bit depth 10, lossless
\* false, automatic chroma subsampling, AV1 compression and the SVT encoder,
\* whatever the bucket, the key and the image bytes of the invocation; any
\* two invocations that reach the encoder pass the same profile.
C17_ConstantEncodeProfile ==
    /\ \A i \in Slots :
          \A o \in EncodeProfiles(i) :
              /\ o.Q = 50
              /\ o.Bitdepth = 10
              /\ o.Lossless = FALSE
              /\ o.SubsampleMode = "SubsampleAuto"
              /\ o.Compression = "HeifCompressionAv1"
              /\ o.Encoder = "HeifEncoderSvt"
              /\ DOMAIN o = {"Q", "Bitdepth", "Lossless", "SubsampleMode",
                             "Compression", "Encoder"}
    /\ \A i, j \in Slots :
          \A o \in EncodeProfiles(i) : \A q \in EncodeProfiles(j) : o = q

\* Two invocations in flight that both called the encoder, on different
\* buckets, different keys and different image bytes.
C17_Witness ==
    \E i, j \in Slots :
        /\ EncodeProfiles(i) # {}
        /\ EncodeProfiles(j) # {}
        /\ inv[i].event.S3Bucket # inv[j].event.S3Bucket
        /\ inv[i].srcKey # inv[j].srcKey
        /\ inv[i].imageBuffer # inv[j].imageBuffer
        /\ Len(inv[i].imageBuffer) # Len(inv[j].imageBuffer)

\* The place of each stage call in the order of HandleRequest.
StageRank(op) ==
    CASE op = "QueryUnescape" -> 1
      [] op = "GetObject" -> 2
      [] op = "ReadAll" -> 3
      [] op = "NewImageFromBuffer" -> 4
      [] op = "GetString" -> 5
      [] op = "HeifsaveBuffer" -> 6
      [] op = "PutObject" -> 7

\* C18: the stage calls of one invocation are made in the order key decode,
\* fetch, read, image decode, format check, encode, upload, each at most once
\* and none skipped; a stage is called only after the stage before it
\* succeeded (the metadata read may have failed); a skip makes no encode and
\* no upload; the destination key is derived only after a successful encode;
\* an upload is preceded by a successful fetch, read, decode and encode.
C18_LinearStages ==
    \A i \in Slots :
        LET l == inv[i]
            sc == StageCalls(l)
        IN  /\ \A k \in DOMAIN sc : StageRank(sc[k].op) = k
            /\ \A k \in DOMAIN sc :
                  k > 1 => sc[k - 1].ok \/ sc[k - 1].op = "GetString"
            /\ (l.err = << >> /\ l.ret.Status = "SKIPPED_ALREADY_AVIF")
                  => ~Called(l, "HeifsaveBuffer") /\ ~Called(l, "PutObject")
            /\ l.newKey # << >> => Succeeded(l, "HeifsaveBuffer")
            /\ Called(l, "PutObject")
                  => /\ l.newKey # << >>
                     /\ \A op \in {"QueryUnescape", "GetObject", "ReadAll",
                                   "NewImageFromBuffer", "HeifsaveBuffer"} :
                           Succeeded(l, op)

\* An invocation that made all seven stage calls, with a failed metadata
\* read in between, and uploaded.
C18_Witness ==
    \E i \in Slots :
        /\ Len(StageCalls(inv[i])) = 7
        /\ Failed(inv[i], "GetString")
        /\ Succeeded(inv[i], "PutObject")

\* C19: in every invocation that calls the upload, the key uploaded to
\* differs from the decoded source key, and the object fetched is still
\* stored under the source key with the content it had when the invocation
\* began.
C19_SourceNeverOverwritten ==
    \A i \in Slots :
        LET l == inv[i]
            src == <<l.event.S3Bucket, l.srcKey>>
        IN  /\ \A k \in CallsOf(l, "PutObject") : l.calls[k].arg.Key # l.srcKey
            /\ Succeeded(l, "GetObject")
                  => src \in DOMAIN store /\ store[src] = l.storeAtInvoke[src]

\* C20: within one invocation the fetch uses the decoded key, the result
\* (skipped or CONVERTED) reports that decoded key as the original key, the
\* upload goes to the key derived from that decoded key, in the bucket that
\* was fetched from, and the new key of a CONVERTED result is the key the
\* successful upload was given.
C20_KeyConsistency ==
    \A i \in Slots :
        LET l == inv[i]
            decoded == QueryUnescape(l.event.S3Key)
        IN  /\ \A k \in CallsOf(l, "GetObject") :
                  /\ decoded.ok
                  /\ l.calls[k].arg.Key = decoded.val
                  /\ l.calls[k].arg.Bucket = l.event.S3Bucket
            /\ \A k \in CallsOf(l, "PutObject") :
                  /\ l.calls[k].arg.Key = replaceExtension(decoded.val, AvifExt)
                  /\ \E g \in CallsOf(l, "GetObject") :
                        l.calls[g].arg.Bucket = l.calls[k].arg.Bucket
            /\ (Returned(i) /\ l.err = << >>)
                  => /\ l.ret.OriginalKey = decoded.val
                     /\ l.ret.Status = "CONVERTED"
                           => \E k \in CallsOf(l, "PutObject") :
                                 /\ l.calls[k].ok
                                 /\ l.calls[k].arg.Key = l.ret.NewKey

\* A returned conversion of an event whose key is changed by the decoding,
\* after a skip was answered.
C20_Witness ==
    /\ \E i \in Slots :
          /\ Returned(i)
          /\ inv[i].ret.Status = "CONVERTED"
          /\ inv[i].event.S3Key = RawDPJpg
          /\ inv[i].ret.OriginalKey = KeyDPJpg
          /\ inv[i].ret.OriginalKey # inv[i].event.S3Key
    /\ <<"b1", KeyQAvif>> \in skipped

====
